---- MODULE Spec2Model ----
(***************************************************************************)
(* Engine.IO / Socket.IO client of adventureland-code                      *)
(* (src/python/adventureland/engineio.py, socketio.py).                    *)
(*                                                                         *)
(* Text frames and packets are sequences of one-character tokens; a JSON   *)
(* list is the tokens "[", its items, "]"; a JSON object is one token.     *)
(* Python's None is the string "None" for object fields and -1 for the     *)
(* numeric fields.                                                         *)
(***************************************************************************)
EXTENDS Integers, Sequences, FiniteSets, TLC

\* ---------------------------------------------------------------- bounds
\* The monotonic clock runs from 0 to MaxClock.
MaxClock == 3
\* Calls of on() per run.
MaxRegs == 2
\* Calls of once() and next_event() per run.
MaxOnce == 1
\* Saturation of the per-registration count of dispatches seen.
MaxSeen == 2
\* Length of the payloads and of the data lists given to the packet codec.
MaxPayload == 3
\* dispatch_event calls nested inside one another
MaxDepth == 2
\* The clock of the keep-alive specification runs from 0 to MaxPingClock.
MaxPingClock == 5
\* Callers waiting in next_event() at once, in the specification of the waiters.
MaxWaiters == 2

\* ------------------------------------------------------- program constants
SECOND_MS == 1000

NoneNum == 0 - 1

Digits == <<"0", "1", "2", "3", "4", "5", "6", "7", "8", "9">>

DigitSet == {Digits[i] : i \in 1..Len(Digits)}

\* int(c) for a one-character string c that is a decimal digit
DigitVal(c) == (CHOOSE i \in 1..Len(Digits) : Digits[i] = c) - 1

\* EngineIOPacket.Type, in the order of its values 0..6
EngineTypes == <<"OPEN", "CLOSE", "PING", "PONG", "MESSAGE", "UPGRADE", "NOOP">>

\* SocketIOPacket.Type, in the order of its values 0..6
SocketTypes == <<"CONNECT", "DISCONNECT", "EVENT", "ACK", "ERROR", "BINARY_EVENT", "BINARY_ACK">>

TypeValue(types, t) == (CHOOSE i \in 1..Len(types) : types[i] = t) - 1

\* `except Exception` / `except ValueError` match by class: the classes that
\* occur in the model and their bases.
ExceptionClasses ==
    {"Exception", "ValueError", "IndexError", "KeyError", "TypeError", "RuntimeError",
     "AttributeError", "InvalidStateError", "ConnectionResetError", "ClientError"}

DropSeq(s, n) == SubSeq(s, n + 1, Len(s))

\* ------------------------------------------------------------------ JSON
\* JSON objects that occur as OPEN payloads, one token each.
HandshakeDocs ==
    [t \in {"{hs2}", "{hs1}", "{hs0}", "{nosid}", "{nopt}"} |->
        CASE t = "{hs1}" -> [sid |-> "s1", pingInterval |-> SECOND_MS, pingTimeout |-> 5 * SECOND_MS]
          [] t = "{hs2}" -> [sid |-> "s1", pingInterval |-> 2 * SECOND_MS, pingTimeout |-> 5 * SECOND_MS]
          [] t = "{hs0}" -> [sid |-> "s1", pingInterval |-> 0, pingTimeout |-> 0]
          [] t = "{nosid}" -> [pingInterval |-> 2 * SECOND_MS, pingTimeout |-> 5 * SECOND_MS]
          [] t = "{nopt}" -> [sid |-> "s1", pingInterval |-> 2 * SECOND_MS]]

\* JSON strings, one token each (the token "foo" is the text "foo" in quotes), and
\* the characters of each.
StringAtoms == {"foo", "x", "y"}

Chars(a) == IF a = "foo" THEN <<"f", "o", "o">> ELSE <<a>>

\* A JSON number without sign: digits, with no leading zero unless it is "0".
IsNumber(s) ==
    /\ Len(s) >= 1
    /\ \A i \in 1..Len(s) : s[i] \in DigitSet
    /\ (Len(s) = 1 \/ s[1] # "0")

\* json.loads: a value, or ValueError (json.JSONDecodeError is a ValueError).
\* The items of a list are juxtaposed: the commas between them are not tokens, so
\* a "," token inside the brackets is a comma too many.
JsonLoads(s) ==
    IF Len(s) = 1 /\ s[1] \in DOMAIN HandshakeDocs
        THEN [err |-> "none", k |-> "dict", d |-> HandshakeDocs[s[1]]]
    ELSE IF s = <<"null">>
        THEN [err |-> "none", k |-> "null"]
    ELSE IF Len(s) >= 2 /\ s[1] = "[" /\ s[Len(s)] = "]"
            /\ \A i \in 2..(Len(s) - 1) : s[i] \in StringAtoms \cup DigitSet
        THEN [err |-> "none", k |-> "list", items |-> SubSeq(s, 2, Len(s) - 1)]
    ELSE IF Len(s) = 1 /\ s[1] \in StringAtoms
        THEN [err |-> "none", k |-> "string", v |-> s[1]]
    ELSE IF IsNumber(s) \/ (Len(s) >= 2 /\ s[1] = "-" /\ IsNumber(Tail(s)))
        THEN [err |-> "none", k |-> "number", v |-> s]
    ELSE [err |-> "ValueError"]

\* str() of a list of atoms: strings come out in single quotes
StrOfList(items) ==
    <<"[">> \o [i \in 1..Len(items) |-> IF items[i] \in StringAtoms THEN "'" ELSE items[i]] \o <<"]">>

\* json.dumps of a list of atoms
JsonDumps(items) == <<"[">> \o items \o <<"]">>

\* json.dumps of any value json.loads gives
JsonDumpsValue(j) ==
    CASE j.k = "list" -> JsonDumps(j.items)
      [] j.k = "dict" -> <<CHOOSE t \in DOMAIN HandshakeDocs : HandshakeDocs[t] = j.d>>
      [] j.k = "string" -> <<j.v>>
      [] j.k = "number" -> j.v
      [] OTHER -> <<"null">>

\* ------------------------------------------------- Engine.IO packet codec
\* EngineIOPacket.parse: cls(Type(int(data[0])), data[1:])
EngineParse(data) ==
    IF Len(data) = 0 THEN [err |-> "IndexError"]
    ELSE IF data[1] \notin DigitSet THEN [err |-> "ValueError"]
    ELSE IF DigitVal(data[1]) + 1 > Len(EngineTypes) THEN [err |-> "ValueError"]
    ELSE [err |-> "none", type |-> EngineTypes[DigitVal(data[1]) + 1], data |-> Tail(data)]

\* EngineIOPacket.encode: '%d%s' % (type.value, data)
EngineEncode(type, data) == <<Digits[TypeValue(EngineTypes, type) + 1]>> \o data

\* ------------------------------------------------- Socket.IO packet codec
\* The longest prefix of s made of decimal digits (the regex group \d+).
RECURSIVE DigitPrefixLen(_)
DigitPrefixLen(s) ==
    IF Len(s) = 0 \/ s[1] \notin DigitSet THEN 0 ELSE 1 + DigitPrefixLen(Tail(s))

RECURSIVE DigitsToInt(_, _)
DigitsToInt(s, acc) ==
    IF Len(s) = 0 THEN acc ELSE DigitsToInt(Tail(s), 10 * acc + DigitVal(s[1]))

\* Position of the first "," of s, 0 if there is none.
RECURSIVE CommaPos(_, _)
CommaPos(s, i) ==
    IF i > Len(s) THEN 0 ELSE IF s[i] = "," THEN i ELSE CommaPos(s, i + 1)

\* PACKET_RE: ^(type \d)(?:(nbin \d)-)?(?:(nsp /[^,]*),)?(id \d+)?(data .+)?$
\* Every group after the type is optional and `.+` (DOTALL) takes any rest, so
\* the greedy choice of each group is the match. The groups are taken in turn:
\* nbin from r1, nsp from r2, id and data from r3.
MatchIdData(m, r3, nid) ==
    [ok |-> TRUE, type |-> m.type, nbin |-> m.nbin, hasNsp |-> m.hasNsp, nsp |-> m.nsp,
     hasId |-> nid > 0,
     id |-> IF nid > 0 THEN DigitsToInt(SubSeq(r3, 1, nid), 0) ELSE NoneNum,
     hasData |-> Len(r3) > nid,
     data |-> DropSeq(r3, nid)]

MatchNsp(m, r2, comma) ==
    MatchIdData([type |-> m.type, nbin |-> m.nbin, hasNsp |-> comma > 0,
                 nsp |-> IF comma > 0 THEN SubSeq(r2, 1, comma - 1) ELSE <<>>],
                DropSeq(r2, comma),
                DigitPrefixLen(DropSeq(r2, comma)))

MatchNbin(type, r1, hasNbin) ==
    MatchNsp([type |-> type, nbin |-> IF hasNbin THEN DigitVal(r1[1]) ELSE 0],
             IF hasNbin THEN DropSeq(r1, 2) ELSE r1,
             IF hasNbin
                THEN (IF Len(r1) > 2 /\ r1[3] = "/" THEN CommaPos(DropSeq(r1, 2), 1) ELSE 0)
                ELSE (IF Len(r1) > 0 /\ r1[1] = "/" THEN CommaPos(r1, 1) ELSE 0))

PacketMatch(s) ==
    IF Len(s) = 0 \/ s[1] \notin DigitSet THEN [ok |-> FALSE]
    ELSE MatchNbin(s[1], Tail(s), Len(s) >= 3 /\ s[2] \in DigitSet /\ s[3] = "-")

\* SocketIOPacket.parse with `namespace = m['nsp']`
ParseFieldsNoDefault(m, j) ==
    IF j.err # "none" THEN [err |-> "ValueError"]
    ELSE [err |-> "none",
          type |-> SocketTypes[DigitVal(m.type) + 1],
          data |-> j,
          id |-> m.id,
          namespace |-> m.nsp,
          n_attachments |-> m.nbin]

\* SocketIOPacket.parse after the match: the type, then the JSON data
ParseFields(m, j) ==
    IF j.err # "none" THEN [err |-> "ValueError"]
    ELSE [err |-> "none",
          type |-> SocketTypes[DigitVal(m.type) + 1],
          data |-> j,
          id |-> m.id,
          namespace |-> IF m.hasNsp THEN m.nsp ELSE <<"/">>,
          n_attachments |-> m.nbin]

ParseMatch(m) ==
    IF ~m.ok THEN [err |-> "ValueError"]
    ELSE IF DigitVal(m.type) + 1 > Len(SocketTypes) THEN [err |-> "ValueError"]
    ELSE ParseFields(m, IF m.hasData THEN JsonLoads(m.data) ELSE [err |-> "none", k |-> "null"])

\* SocketIOPacket.parse
SocketParse(s) == ParseMatch(PacketMatch(s))

\* truthiness of packet.data (None, the empty list and zero are false)
DataTruthy(j) ==
    \/ j.k \in {"dict", "string"}
    \/ (j.k = "list" /\ Len(j.items) > 0)
    \/ (j.k = "number" /\ \E i \in 1..Len(j.v) : j.v[i] \in DigitSet \ {"0"})

\* SocketIOPacket.encode: the type digit, then json.dumps(data) if data
SocketEncode(type, j) ==
    <<Digits[TypeValue(SocketTypes, type) + 1]>>
        \o (IF DataTruthy(j) THEN JsonDumpsValue(j) ELSE <<>>)

\* ------------------------------------------------------------------ state
VARIABLES
    socket,         \* EngineIO.socket: "None" or "ws"
    session,        \* EngineIO.session: "None" or "session"
    runner,         \* EngineIO.runner: "None" or "task"
    sid,            \* EngineIO.sid
    ping_interval,  \* EngineIO.ping_interval, seconds (NoneNum for None)
    ping_timeout,   \* EngineIO.ping_timeout, seconds (NoneNum for None)
    last_ping,      \* EngineIO.last_ping
    pc,             \* where the task running _run() is: "none" (no task), "top", "ping",
                    \* "recv", "pong", "dispatch", "done" (returned), "cancelled"
    tnow,           \* _run's local `now`
    deadline,       \* when the pending receive(timeout) times out (NoneNum: never)
    now,            \* time.monotonic()
    wsOpen,         \* the websocket connection is open
    openSessions,   \* aiohttp.ClientSession objects created and not closed
    wire,           \* the last frame written to the connection (<<>>: none yet)
    pinged,         \* the clock when the read task last wrote a PING (NoneNum: never)
    phase,          \* what the caller last did to the connection: "new", "open", "failed", "closed"
    seenConnect,    \* a session CONNECT packet has been fed to the client on this connection
    last,           \* the last call of the application, or the last dispatch, and its outcome
    handlers,       \* SocketIO._handlers: event name -> set of listeners (a defaultdict)
    regs,           \* add_event_listener calls per (name, callback) since its removal, up to 2
    nReg,           \* calls of on() so far
    wrappers,       \* the on_event_once closures created, in order of creation
    futures,        \* the futures created by next_event, in order of creation
    stack           \* dispatch_event calls in progress, innermost last

engineVars == <<socket, session, runner, sid, ping_interval, ping_timeout, last_ping>>
runVars == <<pc, tnow, deadline>>
envVars == <<now, wsOpen, openSessions, wire, pinged>>
eventVars == <<handlers, regs, nReg, wrappers, futures, stack>>
vars == <<engineVars, runVars, envVars, eventVars, phase, seenConnect, last>>

Running == {"top", "ping", "recv", "pong", "dispatch"}

\* connected that never holds
AlwaysDisconnected == FALSE

\* connected following the read task: false once the task has ended
ConnectedWhileRunning == socket # "None" /\ pc # "done"

\* EngineIO.connected
connected == socket # "None"

\* ------------------------------------------------------------- listeners
\* A listener is [k |-> "cb", n |-> i] (the application's i-th callback),
\* [k |-> "once", n |-> i] (the i-th on_event_once closure) or
\* [k |-> "fut", n |-> i] (next_event's on_event, which resolves the i-th future).
\* NoneL is Python's None passed where a listener is expected.
NoneL == [k |-> "none", n |-> 0]

\* What the application's callbacks do when called.
CallbackBehaviour == <<"ok", "raise">>

Callbacks == {[k |-> "cb", n |-> i] : i \in 1..Len(CallbackBehaviour)}

Names == {"x", "y"}

\* A callback of the application that changes the registry when called: it
\* calls add_event_listener(HookEvent, HookAdds), then
\* remove_event_listener(HookEvent, HookRemoves).
Hooks == {[k |-> "hook", n |-> 1]}

HookEvent == "x"

HookAdds == [k |-> "cb", n |-> 2]

HookRemoves == [k |-> "cb", n |-> 1]

\* A callback of the application that dispatches the event it was called for
\* again, with the same arguments, unless MaxDepth dispatches are already in
\* progress (its own guard against endless recursion).
Nests == {[k |-> "nest", n |-> 1]}

\* self._handlers[name] of a defaultdict(set): reading creates the key
Get(h, name) == IF name \in DOMAIN h THEN h[name] ELSE {}

Put(h, name, S) == [m \in DOMAIN h \cup {name} |-> IF m = name THEN S ELSE h[m]]

\* set.discard, for comparison with set.remove
SetDiscard(S, l) == [err |-> "none", set |-> S \ {l}]

\* set.clear, for comparison with set.remove
SetRemoveAll(S, l) == [err |-> IF l \in S THEN "none" ELSE "KeyError", set |-> {}]

\* set.remove: KeyError if the element is absent
SetRemove(S, l) == [err |-> IF l \in S THEN "none" ELSE "KeyError", set |-> S \ {l}]

\* dispatch_event: the listeners it will call, list(self._handlers[event_name])
\* (none if the name is not a key)
Targets(h, name) == IF name \in DOMAIN h THEN h[name] ELSE {}

\* `except Exception` around each listener call: nothing is caught
CatchesNothing(exc) == FALSE

\* `except Exception` around each listener call in dispatch_event
DispatchCatches(exc) == exc \in ExceptionClasses

\* on_event_once removing itself only when the callback returned
OnceRemovesOnReturn(exc) == exc = "none"

\* on_event_once: `finally` removes the wrapper whether or not on_event raised
OnceRemoves(exc) == TRUE

\* list(args) reversed, for comparison
ReversedList(args) == [i \in 1..Len(args) |-> args[Len(args) + 1 - i]]

\* list(args) in next_event's on_event
ListOf(args) == [i \in 1..Len(args) |-> args[i]]

Bump(n, cap) == IF n < cap THEN n + 1 ELSE n

\* Calling listener l with args in registry h: the exception it raises ("none" if
\* it returns) and the registry, closures and futures afterwards.
InvokeInner(l, args, F) ==
    IF l.k = "cb"
        THEN [exc |-> IF CallbackBehaviour[l.n] = "raise" THEN "Exception" ELSE "none", futures |-> F]
    ELSE IF l.k = "nest"  \* at full depth: it returns without dispatching
        THEN [exc |-> "none", futures |-> F]
    ELSE \* "fut": future.set_result(list(args))
        IF F[l.n].done
            THEN [exc |-> "InvalidStateError",
                  futures |-> [F EXCEPT ![l.n].sets = Bump(@, 2)]]
            ELSE [exc |-> "none",
                  futures |-> [F EXCEPT ![l.n].done = TRUE, ![l.n].result = ListOf(args),
                                        ![l.n].sets = Bump(@, 2)]]

Invoke(l, args, h, W, F) ==
    IF l.k = "hook"
        THEN LET h1 == Put(h, HookEvent, Get(h, HookEvent) \cup {HookAdds})
                 rem == SetRemove(Get(h1, HookEvent), HookRemoves)
             IN  [exc |-> rem.err, handlers |-> Put(h1, HookEvent, rem.set),
                  wrappers |-> W, futures |-> F]
    ELSE IF l.k = "once"
        THEN LET w == W[l.n]
                 r == InvokeInner(w.inner, args, F)
                 rem == SetRemove(Get(h, w.name), l)
                 removes == OnceRemoves(r.exc)
             IN  [exc |-> IF removes /\ rem.err # "none" THEN rem.err ELSE r.exc,
                  handlers |-> IF removes THEN Put(h, w.name, rem.set) ELSE h,
                  wrappers |-> [W EXCEPT ![l.n].fired = Bump(@, 2)],
                  futures |-> r.futures]
        ELSE LET r == InvokeInner(l, args, F)
             IN  [exc |-> r.exc, handlers |-> h, wrappers |-> W, futures |-> r.futures]

\* Bookkeeping at the start of a dispatch of `name`: every closure registered for
\* it has seen one more dispatch, every pending future for it learns its first args.
SeenBy(W, name) ==
    [i \in 1..Len(W) |->
        IF W[i].name = name THEN [W[i] EXCEPT !.seen = Bump(@, MaxSeen)] ELSE W[i]]

FirstFor(F, name, args) ==
    [i \in 1..Len(F) |->
        IF F[i].name = name /\ ~F[i].first.has
            THEN [F[i] EXCEPT !.first = [has |-> TRUE, v |-> args]]
            ELSE F[i]]

\* The add_event_listener calls per callback after listener l was called in
\* registry h.
RegsAfter(l, h, R) ==
    IF l.k # "hook" THEN R
    ELSE [R EXCEPT ![HookEvent] =
            [c \in Callbacks |->
                IF c = HookRemoves /\ c \in Get(h, HookEvent) \cup {HookAdds} THEN 0
                ELSE IF c = HookAdds THEN Bump(R[HookEvent][c], 2)
                ELSE R[HookEvent][c]]]

\* dispatch_event iterating the registry's own set: a listener removed before its
\* turn is not called
LiveToCall(pending, live) == pending \cap live

\* dispatch_event: `for on_event in list(self._handlers[event_name])` iterates a
\* copy: what is left of the copy is still to be called, whatever the registry
\* (`live`) holds by now
StillToCall(pending, live) == pending

\* The record of a finished dispatch_event call; `live` is what the registry
\* holds for the event when it returns.
Finished(frame, pending, raised, escaped, pcAfter, live) ==
    [op |-> "dispatch", err |-> escaped, origin |-> frame.origin,
     size |-> Cardinality(frame.snap), ran |-> Cardinality(frame.called),
     extra |-> Cardinality(frame.called \ frame.snap),
     missed |-> Cardinality(pending), raised |-> raised, pcAfter |-> pcAfter,
     removed |-> frame.snap \ live # {}, added |-> live \ frame.snap # {}]

\* ------------------------------------------------------- Engine.IO client
\* handshake = json.loads(packet.data); self.sid = handshake['sid']; ... in this
\* order: a missing key leaves the earlier assignments done.
Handshake(data, cur) ==
    LET j == JsonLoads(data) IN
    IF j.err # "none" THEN [err |-> "ValueError", st |-> cur]
    ELSE IF j.k # "dict" THEN [err |-> "TypeError", st |-> cur]
    ELSE
      LET d == j.d
          st1 == [cur EXCEPT !.sid = d.sid]
          st2 == [st1 EXCEPT !.pi = d.pingInterval \div SECOND_MS]
          st3 == [st2 EXCEPT !.pt = d.pingTimeout \div SECOND_MS]
      IN  IF "sid" \notin DOMAIN d THEN [err |-> "KeyError", st |-> cur]
          ELSE IF "pingInterval" \notin DOMAIN d THEN [err |-> "KeyError", st |-> st1]
          ELSE IF "pingTimeout" \notin DOMAIN d THEN [err |-> "KeyError", st |-> st2]
          ELSE [err |-> "none", st |-> st3]

HandshakeState == [sid |-> sid, pi |-> ping_interval, pt |-> ping_timeout]

\* connect() taking whatever packet comes first
AnyFirstPacket(packet) == TRUE

\* connect(): `if packet.type is not EngineIOPacket.Type.OPEN: raise RuntimeError`
FirstPacketIsOpen(packet) == packet.type = "OPEN"

\* socket.receive_str(): TypeError unless the message is TEXT; then parse
FirstPacket(msg) == IF msg.t # "TEXT" THEN [err |-> "TypeError"] ELSE EngineParse(msg.d)

\* The first inbound message is text that parses to a packet of type OPEN.
DecodesAsOpen(msg) ==
    /\ msg.t = "TEXT"
    /\ EngineParse(msg.d).err = "none"
    /\ EngineParse(msg.d).type = "OPEN"

\* The body of connect()'s try block: the exception it raises ("none" if none),
\* whether self.socket was assigned, and the handshake fields afterwards.
ConnectTry(wsOk, msg, cur) ==
    IF ~wsOk THEN [exc |-> "ClientError", sockSet |-> FALSE, st |-> cur]
    ELSE
      LET p == FirstPacket(msg) IN
      IF p.err # "none" THEN [exc |-> p.err, sockSet |-> TRUE, st |-> cur]
      ELSE IF ~FirstPacketIsOpen(p) THEN [exc |-> "RuntimeError", sockSet |-> TRUE, st |-> cur]
      ELSE IF p.type = "OPEN"
          THEN LET h == Handshake(p.data, cur) IN [exc |-> h.err, sockSet |-> TRUE, st |-> h.st]
          ELSE [exc |-> "none", sockSet |-> TRUE, st |-> cur]

\* close() leaving the task alone
LeaveRunner(p) == p

\* close(): self.runner.cancel(), then the task is awaited (CancelledError suppressed)
CancelRunner(p) == IF p \in Running THEN "cancelled" ELSE p

\* aiohttp.ClientWebSocketResponse and aiohttp.ClientSession, the types of
\* self.socket and self.session, have close() and no disconnect(): looking the
\* attribute up raises AttributeError.
HasDisconnect(object) == FALSE

\* socket.receive(timeout): aiohttp takes `timeout or receive_timeout`, so a
\* timeout of 0 is no timeout.
ReceiveDeadline(timeout, t) == IF timeout = 0 THEN NoneNum ELSE t + timeout

\* send_packet refusing until the session CONNECT packet has arrived
RefusedBeforeConnect(sock) == sock = "None" \/ ~seenConnect

\* send_packet: `if not self.connected: raise RuntimeError('Not connected')`
SendRefused(sock) == sock = "None"

\* ---------------------------------------------------------------- actions
TickWithin(cap) ==
    /\ now < cap
    /\ now' = now + 1
    /\ UNCHANGED <<engineVars, runVars, wsOpen, openSessions, wire, pinged, eventVars, phase,
                   seenConnect, last>>

Tick == TickWithin(MaxClock)

\* EngineIO.connect (SocketIO.connect calls it under the same guard)
Connect(wsOk, msg) ==
    /\ stack = <<>>
    /\ IF connected
         THEN /\ last' = [op |-> "connect", noop |-> TRUE, wsOk |-> wsOk,
                          opens |-> DecodesAsOpen(msg), err |-> "none"]
              /\ UNCHANGED <<engineVars, runVars, envVars, phase, seenConnect>>
         ELSE LET r == ConnectTry(wsOk, msg, HandshakeState) IN
              /\ sid' = r.st.sid
              /\ ping_interval' = r.st.pi
              /\ ping_timeout' = r.st.pt
              /\ socket' = IF r.sockSet THEN "ws" ELSE "None"
              /\ last' = [op |-> "connect", noop |-> FALSE, wsOk |-> wsOk,
                          opens |-> DecodesAsOpen(msg), err |-> r.exc]
              /\ IF r.exc # "none"
                   THEN \* except: await self.session.close(); self.session = None; raise
                        /\ session' = "None"
                        /\ openSessions' = openSessions + 1 - 1
                        /\ wsOpen' = FALSE
                        /\ phase' = "failed"
                        /\ UNCHANGED <<runner, pc, seenConnect>>
                   ELSE /\ session' = "session"
                        /\ openSessions' = openSessions + 1
                        /\ wsOpen' = TRUE
                        /\ runner' = "task"
                        /\ pc' = "top"
                        /\ phase' = "open"
                        /\ seenConnect' = FALSE
              /\ UNCHANGED <<last_ping, tnow, deadline, now, wire, pinged>>
    /\ UNCHANGED eventVars

\* EngineIO.close (SocketIO.close delegates to it)
Close ==
    /\ stack = <<>>
    /\ pc' = IF runner # "None" THEN CancelRunner(pc) ELSE pc
    /\ phase' = "closed"
    /\ IF socket # "None" /\ ~HasDisconnect("socket")
         THEN \* await self.socket.disconnect() raises
              /\ last' = [op |-> "close", err |-> "AttributeError", at |-> pc]
              /\ UNCHANGED <<engineVars, wsOpen, openSessions>>
       ELSE IF session # "None" /\ ~HasDisconnect("session")
         THEN \* await self.session.disconnect() raises
              /\ last' = [op |-> "close", err |-> "AttributeError", at |-> pc]
              /\ wsOpen' = IF socket # "None" THEN FALSE ELSE wsOpen
              /\ UNCHANGED <<engineVars, openSessions>>
         ELSE /\ last' = [op |-> "close", err |-> "none", at |-> pc]
              /\ wsOpen' = IF socket # "None" THEN FALSE ELSE wsOpen
              /\ openSessions' = IF session # "None" THEN openSessions - 1 ELSE openSessions
              /\ socket' = "None"
              /\ session' = "None"
              /\ runner' = "None"
              /\ UNCHANGED <<sid, ping_interval, ping_timeout, last_ping>>
    /\ UNCHANGED <<tnow, deadline, now, wire, pinged, eventVars, seenConnect>>

\* socket.send_str(frame) on the connection: net = "lost" is the connection
\* breaking under the write.
Write(frame, net) ==
    IF ~wsOpen THEN [err |-> "ConnectionResetError", wire |-> wire, open |-> FALSE]
    ELSE IF net = "lost" THEN [err |-> "ConnectionResetError", wire |-> wire, open |-> FALSE]
    ELSE [err |-> "none", wire |-> frame, open |-> TRUE]

\* EngineIO.send_packet called with an encoded frame, by the application; `what`
\* is what the caller asked to send, kept for the record.
Transmit(op, what, frame, net) ==
    /\ stack = <<>>
    /\ IF SendRefused(socket)
         THEN \* RuntimeError('Not connected')
              /\ last' = [op |-> op, err |-> "NotConnected", wrote |-> <<>>, what |-> what,
                          connected |-> connected, phase |-> phase,
                          healthy |-> wsOpen /\ net = "ok"]
              /\ UNCHANGED <<wsOpen, wire>>
         ELSE LET w == Write(frame, net) IN
              /\ wire' = w.wire
              /\ wsOpen' = w.open
              /\ last' = [op |-> op, err |-> w.err, what |-> what,
                          wrote |-> IF w.err = "none" THEN <<frame>> ELSE <<>>,
                          connected |-> connected, phase |-> phase,
                          healthy |-> wsOpen /\ net = "ok"]
    /\ UNCHANGED <<engineVars, runVars, now, openSessions, pinged, eventVars, phase, seenConnect>>

\* EngineIO.send_packet(EngineIOPacket(type, data))
SendPacket(type, data, net) == Transmit("send", <<type>> \o data, EngineEncode(type, data), net)

\* SocketIO.emit(name, *args): EVENT packet [name, *args] sent as a MESSAGE
Emit(name, args, net) ==
    Transmit("emit", <<name>> \o args,
             EngineEncode("MESSAGE",
                          SocketEncode("EVENT", [err |-> "none", k |-> "list", items |-> <<name>> \o args])),
             net)

\* ------------------------------------------------------- Socket.IO client
\* The keys of a JSON object in document order (unpacking a dict iterates its keys).
KeysOf(d) == SelectSeq(<<"sid", "pingInterval", "pingTimeout">>, LAMBDA key : key \in DOMAIN d)

\* event_name, *event_data = packet.data
Unpack(items) ==
    IF Len(items) = 0 THEN [kind |-> "raise", exc |-> "ValueError"]
    ELSE [kind |-> "dispatch", name |-> Head(items), args |-> Tail(items)]

\* _feed_packet with `except KeyError` around parse
FeedCatchesKeyError(exc) == exc = "KeyError"

\* _feed_packet: `except ValueError` around SocketIOPacket.parse
FeedCatches(exc) == exc = "ValueError"

\* _feed_packet once the packet is parsed
FeedPacket(p) ==
    IF p.err # "none"
        THEN (IF FeedCatches(p.err) THEN [kind |-> "drop"] ELSE [kind |-> "raise", exc |-> p.err])
    ELSE CASE p.type = "CONNECT" -> [kind |-> "dispatch", name |-> "connect", args |-> <<>>]
           [] p.type = "DISCONNECT" -> [kind |-> "dispatch", name |-> "disconnect", args |-> <<>>]
           [] p.type = "EVENT" ->
                IF p.data.k \in {"null", "number"} THEN [kind |-> "raise", exc |-> "TypeError"]
                ELSE Unpack(CASE p.data.k = "list" -> p.data.items
                              [] p.data.k = "string" -> Chars(p.data.v)
                              [] OTHER -> KeysOf(p.data.d))
           [] p.type = "ERROR" -> [kind |-> "dispatch", name |-> "error", args |-> <<p.data>>]
           [] OTHER -> [kind |-> "none"]

\* SocketIO._feed_packet up to its dispatch_event call: what it does with a
\* MESSAGE payload.
Feed(data) == FeedPacket(SocketParse(data))

\* dispatch_event(name, *args) entered by `origin` ("app" or "runner"): the
\* snapshot is taken; with no listener the call returns at once.
BeginDispatch(name, args, origin, pcAfter) ==
    LET snap == Targets(handlers, name)
        frame == [name |-> name, args |-> args, snap |-> snap, pending |-> snap,
                  called |-> {}, raised |-> FALSE, origin |-> origin, calling |-> NoneL]
    IN  /\ wrappers' = SeenBy(wrappers, name)
        /\ futures' = FirstFor(futures, name, args)
        /\ IF snap = {}
             THEN /\ stack' = stack
                  /\ last' = Finished(frame, {}, FALSE, "none", pcAfter, {})
             ELSE /\ stack' = Append(stack, frame)
                  /\ last' = [op |-> "dispatching", err |-> "none"]
        /\ UNCHANGED <<handlers, regs, nReg>>

\* Listener l, called now, dispatches again before it returns: it is a nesting
\* callback, or the on_event_once closure of one, and the depth allows it.
Enters(l, W, depth) ==
    /\ depth < MaxDepth
    /\ \/ l.k = "nest"
       \/ l.k = "once" /\ W[l.n].inner.k = "nest"

\* One iteration of dispatch_event's loop: the next listener of the snapshot (a
\* set: in any order) is called; the call returns after the last one, or raises
\* what the loop does not catch.
ListenerStep ==
    /\ stack # <<>>
    /\ stack[Len(stack)].calling = NoneL
    /\ LET f == stack[Len(stack)] IN
       \E l \in {m \in StillToCall(f.pending, Targets(handlers, f.name)) :
                    ~Enters(m, wrappers, Len(stack))} :
         LET r == Invoke(l, f.args, handlers, wrappers, futures)
             caught == r.exc = "none" \/ DispatchCatches(r.exc)
             pending1 == f.pending \ {l}
             raised1 == f.raised \/ r.exc # "none"
             f1 == [f EXCEPT !.pending = pending1, !.called = @ \cup {l}, !.raised = raised1]
             pcAfter == IF f.origin # "runner" THEN pc ELSE IF caught THEN "top" ELSE "done"
         IN  /\ handlers' = r.handlers
             /\ wrappers' = r.wrappers
             /\ futures' = r.futures
             /\ regs' = RegsAfter(l, handlers, regs)
             /\ IF ~caught \/ StillToCall(pending1, Targets(r.handlers, f.name)) = {}
                  THEN /\ stack' = SubSeq(stack, 1, Len(stack) - 1)
                       /\ last' = Finished(f1, pending1, raised1,
                                           IF caught THEN "none" ELSE r.exc, pcAfter,
                                           Targets(r.handlers, f.name))
                       /\ pc' = pcAfter
                  ELSE /\ stack' = [stack EXCEPT ![Len(stack)] = f1]
                       /\ UNCHANGED <<pc, last>>
    /\ UNCHANGED <<engineVars, tnow, deadline, envVars, nReg, phase, seenConnect>>

\* One iteration of dispatch_event's loop where the listener called dispatches
\* the same event again: on_event_once (if l is one) calls the callback, the
\* callback calls dispatch_event, which takes its own snapshot of the registry.
\* The listener's call stays open (`calling`) until the nested dispatch returns.
EnterNested ==
    /\ stack # <<>>
    /\ stack[Len(stack)].calling = NoneL
    /\ LET f == stack[Len(stack)] IN
       \E l \in StillToCall(f.pending, Targets(handlers, f.name)) :
         /\ Enters(l, wrappers, Len(stack))
         /\ LET f1 == [f EXCEPT !.pending = @ \ {l}, !.called = @ \cup {l}, !.calling = l]
                W1 == IF l.k = "once" THEN [wrappers EXCEPT ![l.n].fired = Bump(@, 2)]
                      ELSE wrappers
                snap == Targets(handlers, f.name)
                inner == [name |-> f.name, args |-> f.args, snap |-> snap, pending |-> snap,
                          called |-> {}, raised |-> FALSE, origin |-> "app",
                          calling |-> NoneL]
                outer == [stack EXCEPT ![Len(stack)] = f1]
            IN  /\ wrappers' = SeenBy(W1, f.name)
                /\ futures' = FirstFor(futures, f.name, f.args)
                /\ IF snap = {}
                     THEN /\ stack' = outer
                          /\ last' = Finished(inner, {}, FALSE, "none", pc, {})
                     ELSE /\ stack' = Append(outer, inner)
                          /\ last' = [op |-> "dispatching", err |-> "none"]
    /\ UNCHANGED <<engineVars, runVars, envVars, handlers, regs, nReg, phase, seenConnect>>

\* The nested dispatch_event has returned: the callback that made it returns,
\* on_event_once (if the listener is one) runs its `finally`, and the outer loop
\* goes on to its next listener or returns.
ReturnNested ==
    /\ stack # <<>>
    /\ stack[Len(stack)].calling # NoneL
    /\ LET f == stack[Len(stack)]
           l == f.calling
           inner == IF last.op = "dispatch" THEN last.err ELSE "none"
           rem == SetRemove(Get(handlers, f.name), l)
           removes == l.k = "once" /\ OnceRemoves(inner)
           exc == IF removes /\ rem.err # "none" THEN rem.err ELSE inner
           h1 == IF removes THEN Put(handlers, f.name, rem.set) ELSE handlers
           caught == exc = "none" \/ DispatchCatches(exc)
           raised1 == f.raised \/ exc # "none"
           f1 == [f EXCEPT !.calling = NoneL, !.raised = raised1]
           pcAfter == IF f.origin # "runner" THEN pc ELSE IF caught THEN "top" ELSE "done"
       IN  /\ handlers' = h1
           /\ IF ~caught \/ StillToCall(f.pending, Targets(h1, f.name)) = {}
                THEN /\ stack' = SubSeq(stack, 1, Len(stack) - 1)
                     /\ last' = Finished(f1, f.pending, raised1,
                                         IF caught THEN "none" ELSE exc, pcAfter,
                                         Targets(h1, f.name))
                     /\ pc' = pcAfter
                ELSE /\ stack' = [stack EXCEPT ![Len(stack)] = f1]
                     /\ last' = [op |-> "returned", err |-> exc]
                     /\ UNCHANGED pc
    /\ UNCHANGED <<engineVars, tnow, deadline, envVars, regs, nReg, wrappers, futures, phase,
                   seenConnect>>

\* dispatch_event called by the application
DispatchEvent(name, args) ==
    /\ stack = <<>>
    /\ BeginDispatch(name, args, "app", pc)
    /\ UNCHANGED <<engineVars, runVars, envVars, phase, seenConnect>>

\* on(name)(l): add_event_listener(name, l); returns None
On(name, l) ==
    /\ stack = <<>>
    /\ nReg < MaxRegs
    /\ nReg' = nReg + 1
    /\ handlers' = Put(handlers, name, Get(handlers, name) \cup {l})
    /\ regs' = IF l \in Callbacks THEN [regs EXCEPT ![name][l] = Bump(@, 2)] ELSE regs
    /\ last' = [op |-> "on", err |-> "none", had |-> l \in Targets(handlers, name),
                grew |-> Cardinality(Get(handlers, name) \cup {l}) - Cardinality(Get(handlers, name))]
    /\ UNCHANGED <<engineVars, runVars, envVars, wrappers, futures, stack, phase, seenConnect>>

\* What once(name)(cb) gives back: add_event_listener has no return statement.
OnceReturn(wrapper) == NoneL

\* add_event_listener(name, inner, once=True): a new closure is registered
AddOnce(name, inner) ==
    LET wrapper == [k |-> "once", n |-> Len(wrappers) + 1] IN
    /\ wrappers' = Append(wrappers, [name |-> name, inner |-> inner, fired |-> 0, seen |-> 0])
    /\ handlers' = Put(handlers, name, Get(handlers, name) \cup {wrapper})
    /\ last' = [op |-> "once", err |-> "none", wrapper |-> wrapper, ret |-> OnceReturn(wrapper)]

\* once(name)(cb)
Once(name, cb) ==
    /\ stack = <<>>
    /\ Len(wrappers) < MaxOnce
    /\ AddOnce(name, cb)
    /\ UNCHANGED <<engineVars, runVars, envVars, regs, nReg, futures, stack, phase, seenConnect>>

\* next_event resolving one future for all its callers
SharedFuture(F) == 1

\* next_event: `future = self._loop.create_future()`, a new future per call; the
\* on_event it registers resolves that one
NewFuture(F) == Len(F) + 1

\* next_event(name): a future, and a once-listener that resolves it; the caller
\* waits for the future. At most `cap` calls are made.
NextEventWithin(name, cap) ==
    /\ stack = <<>>
    /\ Len(wrappers) < cap
    /\ futures' = Append(futures, [name |-> name, done |-> FALSE, result |-> <<>>, sets |-> 0,
                                   first |-> [has |-> FALSE, v |-> <<>>]])
    /\ AddOnce(name, [k |-> "fut", n |-> NewFuture(futures)])
    /\ UNCHANGED <<engineVars, runVars, envVars, regs, nReg, stack, phase, seenConnect>>

NextEvent(name) == NextEventWithin(name, MaxOnce)

\* remove_event_listener(name, l): self._handlers[name].remove(l)
Off(name, l) ==
    LET before == Get(handlers, name)
        rem == SetRemove(before, l)
        after == Put(handlers, name, rem.set)
    IN  /\ stack = <<>>
        /\ handlers' = after
        /\ regs' = IF rem.err = "none" /\ l \in Callbacks
                     THEN [regs EXCEPT ![name][l] = 0] ELSE regs
        /\ last' = [op |-> "off", err |-> rem.err, name |-> name, l |-> l,
                    had |-> l \in Targets(handlers, name),
                    times |-> IF l \in Callbacks THEN regs[name][l] ELSE 0,
                    gone |-> l \notin Targets(after, name),
                    others |-> \A m \in DOMAIN after :
                                  Targets(after, m) \ {l} = Targets(handlers, m) \ {l}
                                  /\ (m # name => Targets(after, m) = Targets(handlers, m))]
        /\ UNCHANGED <<engineVars, runVars, envVars, nReg, wrappers, futures, stack, phase, seenConnect>>

\* ------------------------------------------------------------ read task
\* a PING sent as soon as the interval has passed
PingDueAtInterval(t, lp, pi) == t >= lp + pi

\* _run: `if now > self.last_ping + self.ping_interval: await self.ping()`
PingDue(t, lp, pi) == t > lp + pi

\* _run, from the top of the loop to its first await
RunnerTop ==
    /\ pc = "top"
    /\ tnow' = now
    /\ IF ping_interval > 0
         THEN IF PingDue(now, last_ping, ping_interval)
                THEN /\ pc' = "ping"
                     /\ UNCHANGED deadline
                ELSE /\ pc' = "recv"
                     /\ deadline' = ReceiveDeadline(ping_interval - (now - last_ping), now)
         ELSE /\ pc' = "recv"
              /\ deadline' = NoneNum
    /\ UNCHANGED <<engineVars, envVars, eventVars, phase, seenConnect, last>>

\* _run resumed from `await self.ping()`: the PING is written, last_ping and the
\* timeout are set, and receive is awaited; a failed write ends the task.
RunnerPing(net) ==
    /\ pc = "ping"
    /\ LET w == IF SendRefused(socket)
                  THEN [err |-> "NotConnected", wire |-> wire, open |-> wsOpen]
                  ELSE Write(EngineEncode("PING", <<>>), net)
       IN  /\ wire' = w.wire
           /\ wsOpen' = w.open
           /\ IF w.err # "none"
                THEN /\ pc' = "done"
                     /\ last' = [op |-> "ping", err |-> w.err]
                     /\ UNCHANGED <<last_ping, deadline, pinged>>
                ELSE /\ pc' = "recv"
                     /\ pinged' = now
                     /\ last_ping' = now
                     /\ deadline' = ReceiveDeadline(ping_interval - (tnow - now), now)
                     /\ last' = [op |-> "ping", err |-> "none", at |-> now, prev |-> pinged]
    /\ UNCHANGED <<socket, session, runner, sid, ping_interval, ping_timeout, tnow, now,
                   openSessions, eventVars, phase, seenConnect>>

\* receive(timeout) raises asyncio.TimeoutError: continue
RunnerTimeout ==
    /\ pc = "recv"
    /\ deadline # NoneNum
    /\ now >= deadline
    /\ pc' = "top"
    /\ UNCHANGED <<engineVars, tnow, deadline, envVars, eventVars, phase, seenConnect, last>>

\* _on_packet answering NOOP packets as well
RepliesToPingAndNoop(type) == type \in {"PING", "NOOP"}

\* _on_packet: `elif packet.type is EngineIOPacket.Type.PING:` is the only branch
\* that sends a PONG
RepliesWithPong(type) == type = "PING"

\* _on_packet(packet) called by _run: the handshake fields afterwards, and how
\* control goes on: "top" (it returns), "pong" (it awaits the send of a PONG),
\* "feed" (on_message is called with the payload), "done" (it raises).
OnPacket(p, cur) ==
    CASE p.type = "OPEN" ->
            LET h == Handshake(p.data, cur) IN
            [st |-> h.st, to |-> IF h.err = "none" THEN "top" ELSE "done"]
      [] p.type = "CLOSE" ->
            [st |-> [sid |-> "None", pi |-> NoneNum, pt |-> NoneNum], to |-> "top"]
      [] p.type \notin {"OPEN", "CLOSE"} /\ RepliesWithPong(p.type) -> [st |-> cur, to |-> "pong"]
      [] p.type = "MESSAGE" -> [st |-> cur, to |-> "feed"]
      [] OTHER -> [st |-> cur, to |-> "top"]  \* NOOP, PONG, UPGRADE (on_upgrade does nothing)

\* _run from the message receive() returned to _on_packet's outcome: CLOSE and
\* CLOSED break the loop, other non-text messages and ValueError from parse
\* continue it, any other exception ends the task.
AfterReceive(msg, cur) ==
    IF msg.t \in {"CLOSE", "CLOSED"} THEN [st |-> cur, to |-> "done", open |-> FALSE, data |-> <<>>]
    ELSE IF msg.t # "TEXT" THEN [st |-> cur, to |-> "top", open |-> TRUE, data |-> <<>>]
    ELSE
      LET p == EngineParse(msg.d) IN
      IF p.err = "ValueError" THEN [st |-> cur, to |-> "top", open |-> TRUE, data |-> <<>>]
      ELSE IF p.err # "none" THEN [st |-> cur, to |-> "done", open |-> TRUE, data |-> <<>>]
      ELSE LET r == OnPacket(p, cur) IN
           [st |-> r.st, to |-> r.to, open |-> TRUE, data |-> p.data]

\* What kind of message the connection delivered, by its form alone: "closed",
\* "nontext", a text frame that is "empty", starts with a "nondigit" or with a
\* digit that is no packet type ("badtype"), a "message" or another "packet".
TransportClass(msg) ==
    IF msg.t \in {"CLOSE", "CLOSED"} THEN "closed"
    ELSE IF msg.t # "TEXT" THEN "nontext"
    ELSE IF Len(msg.d) = 0 THEN "empty"
    ELSE IF msg.d[1] \notin DigitSet THEN "nondigit"
    ELSE IF DigitVal(msg.d[1]) > 6 THEN "badtype"
    ELSE IF msg.d[1] = "4" THEN "message"
    ELSE "packet"

\* What kind of MESSAGE payload it is, by its form alone: "nomatch" (PACKET_RE
\* does not match), "badtype" (a digit that is no packet type), "badjson", an
\* EVENT with "nodata" or with "emptydata" (the empty list), or "packet".
SessionClass(payload) ==
    IF Len(payload) = 0 \/ payload[1] \notin DigitSet THEN "nomatch"
    ELSE IF DigitVal(payload[1]) > 6 THEN "badtype"
    ELSE IF PacketMatch(payload).hasData /\ JsonLoads(PacketMatch(payload).data).err # "none"
        THEN "badjson"
    ELSE IF payload[1] # "2" THEN "packet"
    ELSE IF ~PacketMatch(payload).hasData THEN "nodata"
    ELSE IF JsonLoads(PacketMatch(payload).data) = [err |-> "none", k |-> "null"] THEN "nodata"
    ELSE IF JsonLoads(PacketMatch(payload).data) = [err |-> "none", k |-> "list", items |-> <<>>]
        THEN "emptydata"
    ELSE "packet"

\* `type` is the type of the transport packet the message decodes to ("none" if
\* it does not decode).
FrameClass(msg) ==
    [t |-> TransportClass(msg),
     s |-> IF TransportClass(msg) = "message" THEN SessionClass(Tail(msg.d)) ELSE "none",
     type |-> IF TransportClass(msg) \in {"message", "packet"}
                THEN EngineParse(msg.d).type ELSE "none"]

\* What _run does with the outcome r of a received message, f being what
\* on_message does with a MESSAGE payload and c the kind of message it was.
Received(r, f, c) ==
    /\ sid' = r.st.sid
    /\ ping_interval' = r.st.pi
    /\ ping_timeout' = r.st.pt
    /\ wsOpen' = (wsOpen /\ r.open)
    /\ seenConnect' = (seenConnect \/ (r.to = "feed" /\ SocketParse(r.data).err = "none"
                                                     /\ SocketParse(r.data).type = "CONNECT"))
    /\ IF f.kind = "dispatch"
         THEN /\ BeginDispatch(f.name, f.args, "runner", "top")
              /\ pc' = IF Targets(handlers, f.name) = {} THEN "top" ELSE "dispatch"
         ELSE /\ pc' = IF r.to = "feed" THEN (IF f.kind = "raise" THEN "done" ELSE "top")
                       ELSE r.to
              /\ last' = [op |-> "recv", err |-> "none", t |-> c.t, s |-> c.s, type |-> c.type,
                          to |-> IF r.to = "feed" THEN (IF f.kind = "raise" THEN "done" ELSE "top")
                                 ELSE r.to]
              /\ UNCHANGED eventVars

FeedIf(r) == IF r.to = "feed" THEN Feed(r.data) ELSE [kind |-> "none"]

\* _run resumed from receive with message msg, up to its next await (or to the
\* dispatch of an event)
RunnerRecv(msg) ==
    /\ pc = "recv"
    /\ IF wsOpen THEN TRUE ELSE msg.t = "CLOSED"
    /\ Received(AfterReceive(msg, HandshakeState), FeedIf(AfterReceive(msg, HandshakeState)),
                FrameClass(msg))
    /\ UNCHANGED <<socket, session, runner, last_ping, tnow, deadline, now, openSessions,
                   wire, pinged, phase>>

\* _run resumed from the send of the PONG that answers a PING
RunnerPong(net) ==
    /\ pc = "pong"
    /\ LET w == IF SendRefused(socket)
                  THEN [err |-> "NotConnected", wire |-> wire, open |-> wsOpen]
                  ELSE Write(EngineEncode("PONG", <<>>), net)
       IN  /\ wire' = w.wire
           /\ wsOpen' = w.open
           /\ pc' = IF w.err # "none" THEN "done" ELSE "top"
           /\ last' = [op |-> "pong", err |-> w.err]
    /\ UNCHANGED <<engineVars, tnow, deadline, now, openSessions, pinged, eventVars, phase, seenConnect>>

\* ------------------------------------------------------------ inputs
Text(d) == [t |-> "TEXT", d |-> d]

EventFrame(name, args) ==
    EngineEncode("MESSAGE",
                 SocketEncode("EVENT", [err |-> "none", k |-> "list", items |-> <<name>> \o args]))

\* Text frames the server may send.
Frames ==
    {<<"0", "{hs2}">>, <<"0", "{nosid}">>, <<"1">>, <<"2">>, <<"6">>, <<"7">>, <<>>, <<"x">>,
     <<"4", "0">>, <<"4", "2">>, <<"4", "2", "[", "]">>, <<"4", "7">>, <<"4", "2", "[">>,
     <<"4">>, EventFrame("x", <<"1">>)}

\* Messages the connection may deliver.
Messages ==
    {Text(f) : f \in Frames}
        \cup {[t |-> "BINARY", d |-> <<>>], [t |-> "CLOSED", d |-> <<>>]}

Net == {"ok", "lost"}

ArgLists == {<<>>, <<"1", "2", "3">>}

EventMessages == {Text(EventFrame(name, <<"1", "2", "3">>)) : name \in Names}

\* ---------------------------------------------------------- specification
Init ==
    /\ socket = "None"
    /\ session = "None"
    /\ runner = "None"
    /\ sid = "None"
    /\ ping_interval = 0
    /\ ping_timeout = 0
    /\ last_ping = 0
    /\ pc = "none"
    /\ tnow = 0
    /\ deadline = NoneNum
    /\ now = 0
    /\ wsOpen = FALSE
    /\ openSessions = 0
    /\ wire = <<>>
    /\ pinged = NoneNum
    /\ phase = "new"
    /\ seenConnect = FALSE
    /\ last = [op |-> "init", err |-> "none"]
    /\ handlers = [name \in {} |-> {}]
    /\ regs = [name \in Names |-> [l \in Callbacks |-> 0]]
    /\ nReg = 0
    /\ wrappers = <<>>
    /\ futures = <<>>
    /\ stack = <<>>

\* The transport client with one listener: connect, close, send, emit, the read task.
Next ==
    \/ Tick
    \/ \E wsOk \in BOOLEAN, msg \in Messages : Connect(wsOk, msg)
    \/ Close
    \/ \E net \in Net : SendPacket("MESSAGE", <<"h">>, net)
    \/ \E net \in Net : Emit("x", <<"1">>, net)
    \/ RunnerTop
    \/ \E net \in Net : RunnerPing(net)
    \/ RunnerTimeout
    \/ \E msg \in Messages : RunnerRecv(msg)
    \/ \E net \in Net : RunnerPong(net)
    \/ (nReg = 0 /\ On("x", [k |-> "cb", n |-> 1]))
    \/ ListenerStep

Spec == Init /\ [][Next]_vars

\* The session client: its listener registry and dispatch_event.
NextEvents ==
    \/ \E name \in Names, l \in Callbacks : On(name, l)
    \/ \E name \in Names, cb \in Callbacks : Once(name, cb)
    \/ \E name \in Names : NextEvent(name)
    \/ \E name \in Names, l \in Callbacks \cup {NoneL} : Off(name, l)
    \/ \E name \in Names, args \in ArgLists : DispatchEvent(name, args)
    \/ ListenerStep

SpecEvents == Init /\ [][NextEvents]_vars

\* The session client fed by the read task of a connection without keep-alive.
NextFeed ==
    \/ Connect(TRUE, Text(<<"0", "{hs0}">>))
    \/ RunnerTop
    \/ \E msg \in EventMessages : RunnerRecv(msg)
    \/ \E name \in Names, l \in Callbacks : On(name, l)
    \/ \E name \in Names, cb \in Callbacks : Once(name, cb)
    \/ ListenerStep

SpecFeed == Init /\ [][NextFeed]_vars

\* dispatch_event with listeners that change the registry while it runs.
NextSnapshot ==
    \/ \E l \in Callbacks \cup Hooks : On(HookEvent, l)
    \/ \E cb \in Callbacks : Once(HookEvent, cb)
    \/ \E name \in Names : DispatchEvent(name, <<"1">>)
    \/ ListenerStep

SpecSnapshot == Init /\ [][NextSnapshot]_vars

\* The read task of a connection with a keep-alive interval of one second, the
\* server sending NOOP packets.
NextKeepAlive ==
    \/ TickWithin(MaxPingClock)
    \/ Connect(TRUE, Text(<<"0", "{hs1}">>))
    \/ RunnerTop
    \/ \E net \in Net : RunnerPing(net)
    \/ RunnerTimeout
    \/ RunnerRecv(Text(<<"6">>))

SpecKeepAlive == Init /\ [][NextKeepAlive]_vars

\* Callers waiting in next_event while events are dispatched.
NextWaiters ==
    \/ \E name \in Names : NextEventWithin(name, MaxWaiters)
    \/ \E name \in Names, args \in ArgLists : DispatchEvent(name, args)
    \/ ListenerStep

SpecWaiters == Init /\ [][NextWaiters]_vars

\* dispatch_event re-entered from a listener while it runs.
NextReentry ==
    \/ \E l \in Callbacks \cup Nests : On(HookEvent, l)
    \/ \E cb \in Callbacks \cup Nests : Once(HookEvent, cb)
    \/ DispatchEvent(HookEvent, <<"1">>)
    \/ ListenerStep
    \/ EnterNested
    \/ ReturnNested

SpecReentry == Init /\ [][NextReentry]_vars

\* The packet codec of the session client on its own. `wire` holds the text under
\* the codec: a payload to decode, or what encode() returned.
PayloadTokens == {"0", "2", "7", "-", "/", ",", "[", "]", "foo"}

\* The wire frame of the protocol's example event and its MESSAGE payload.
ExampleFrame == <<"4", "2", "[", "foo", "1", "2", "]">>

ExamplePayload == Tail(ExampleFrame)

Payloads ==
    UNION {[1..n -> PayloadTokens] : n \in 0..MaxPayload} \cup {ExampleFrame, ExamplePayload}

\* Packets given to encode(): a type, and data that is None or a list.
DataValues ==
    {[err |-> "none", k |-> "null"]}
        \cup {[err |-> "none", k |-> "list", items |-> d] :
                d \in UNION {[1..n -> {"foo", "1", "2"}] : n \in 0..MaxPayload}}

InitCodec ==
    /\ socket = "None"
    /\ session = "None"
    /\ runner = "None"
    /\ sid = "None"
    /\ ping_interval = 0
    /\ ping_timeout = 0
    /\ last_ping = 0
    /\ pc = "none"
    /\ tnow = 0
    /\ deadline = NoneNum
    /\ now = 0
    /\ wsOpen = FALSE
    /\ openSessions = 0
    /\ wire \in Payloads
    /\ pinged = NoneNum
    /\ phase = "new"
    /\ seenConnect = FALSE
    /\ last = [op |-> "init", err |-> "none"]
    /\ handlers = [name \in {} |-> {}]
    /\ regs = [name \in Names |-> [l \in Callbacks |-> 0]]
    /\ nReg = 0
    /\ wrappers = <<>>
    /\ futures = <<>>
    /\ stack = <<>>

\* SocketIOPacket(type, data).encode()
Encode(type, data) ==
    /\ last.op = "init"
    /\ wire = <<>>
    /\ wire' = SocketEncode(type, data)
    /\ last' = [op |-> "encode", err |-> "none", type |-> type, data |-> data]
    /\ UNCHANGED <<engineVars, runVars, now, wsOpen, openSessions, pinged, eventVars, phase, seenConnect>>

\* SocketIOPacket.parse(wire)
Decode ==
    /\ last.op \in {"init", "encode"}
    /\ last' = [op |-> "decode", err |-> SocketParse(wire).err, input |-> wire, from |-> last,
                out |-> SocketParse(wire)]
    /\ UNCHANGED <<engineVars, runVars, envVars, eventVars, phase, seenConnect>>

NextCodec ==
    \/ \E type \in {SocketTypes[i] : i \in 1..Len(SocketTypes)}, data \in DataValues :
          Encode(type, data)
    \/ Decode

SpecCodec == InitCodec /\ [][NextCodec]_vars

\* ---------------------------------------------------------------- claims
\* C1: when the first inbound message of connect() does not decode as an OPEN
\* packet, connect() raises, the session it opened is closed and dropped, and no
\* read task is started.
C1_ConnectRejectsNonOpen ==
    (last.op = "connect" /\ ~last.noop /\ last.wsOk /\ ~last.opens)
        => /\ last.err # "none"
           /\ session = "None"
           /\ openSessions = 0
           /\ ~wsOpen
           /\ runner = "None"
           /\ pc \notin Running

C1_Witness ==
    /\ last.op = "connect" /\ ~last.noop /\ last.wsOk /\ ~last.opens
    /\ last.err = "RuntimeError"

\* C2: after every close() no error was raised and the client is disconnected:
\* no connection, no session, no read task.
C2_CloseIdempotent ==
    last.op = "close"
        => /\ last.err = "none"
           /\ socket = "None"
           /\ session = "None"
           /\ runner = "None"

\* C3: once close() has been called the read task is not running, wherever it was
\* when close() was called, and from then on it takes no step and no dispatch runs.
C3_CloseStopsReadTask ==
    /\ [](phase = "closed" => pc \notin Running /\ stack = <<>>)
    /\ []((last.op = "close" /\ last.at \in Running) => pc = "cancelled")
    /\ [][(phase = "closed" /\ phase' = "closed") => (pc' = pc /\ stack' = stack)]_vars

C3_Witness ==
    /\ last.op = "close"
    /\ last.at = "ping"
    /\ pc = "cancelled"

\* C4: send and emit called before any connect() or after close() raise the
\* not-connected error and write nothing; called on a connected client whose
\* write succeeds they write exactly one frame.
C4_SendNeedsConnection ==
    last.op \in {"send", "emit"}
        => /\ last.phase \in {"new", "closed"}
                => (last.err = "NotConnected" /\ last.wrote = <<>>)
           /\ (last.phase = "open" /\ last.err = "none") => Len(last.wrote) = 1

\* C5: a dispatch calls every listener of its snapshot once although one of them
\* raised, raises nothing itself, and leaves the read task that made it running.
C5_ListenerExceptionIsolated ==
    last.op = "dispatch"
        => /\ last.missed = 0
           /\ last.ran = last.size
           /\ last.err = "none"
           /\ last.origin = "runner" => last.pcAfter = "top"

C5_Witness ==
    /\ last.op = "dispatch"
    /\ last.origin = "runner"
    /\ last.raised
    /\ last.size >= 2

\* C6: the callback of a once-listener is called at most once; once any dispatch
\* of its event has returned it has been called exactly once, and after the call
\* its wrapper is not in the registry.
C6_OnceFiresOnce ==
    \A i \in 1..Len(wrappers) :
        /\ wrappers[i].fired <= 1
        /\ wrappers[i].fired = 1 => [k |-> "once", n |-> i] \notin Targets(handlers, wrappers[i].name)
        /\ (stack = <<>> /\ wrappers[i].seen >= 1) => wrappers[i].fired = 1

C6_Witness ==
    /\ stack = <<>>
    /\ \E i \in 1..Len(wrappers) :
        /\ wrappers[i].inner.k = "cb"
        /\ CallbackBehaviour[wrappers[i].inner.n] = "raise"
        /\ wrappers[i].seen >= 2
        /\ wrappers[i].fired = 1

\* C7: the future of next_event(name) is set exactly once, by the first dispatch
\* of name after the call and with the arguments of that dispatch in order; later
\* dispatches of name do not set it again and raise nothing.
C7_NextEventResolvesOnce ==
    /\ \A i \in 1..Len(futures) :
        /\ futures[i].sets <= 1
        /\ futures[i].done => (futures[i].first.has /\ futures[i].result = futures[i].first.v)
        /\ (stack = <<>> /\ futures[i].first.has) => (futures[i].done /\ futures[i].sets = 1)
    /\ last.op = "dispatch" => last.err = "none"

C7_Witness ==
    /\ stack = <<>>
    /\ \E i \in 1..Len(wrappers) :
        /\ wrappers[i].inner.k = "fut"
        /\ wrappers[i].seen >= 2
        /\ futures[wrappers[i].inner.n].done
        /\ futures[wrappers[i].inner.n].result = <<"1", "2", "3">>

\* C8: remove_event_listener(name, l) removes l from the listeners of name and
\* changes no other listener of any event; if l was not registered for name it
\* raises KeyError and every event keeps the listeners it had.
C8_OffRemovesExactlyThat ==
    last.op = "off"
        => /\ last.others
           /\ IF last.had THEN last.err = "none" /\ last.gone ELSE last.err = "KeyError"

C8_Witness ==
    /\ last.op = "off"
    /\ last.had
    /\ Targets(handlers, last.name) # {}

\* C9: once(name)(cb) returns the wrapper it registered.
C9_OnceReturnsWrapper ==
    last.op = "once" => last.ret = last.wrapper

\* C10: a callback registered again for the same event adds no registry entry: the
\* registry holds it exactly while it has been registered since its last removal,
\* a dispatch calls each listener once, one removal takes it out however often it
\* was registered, and removing it when it is not registered raises KeyError.
C10_DuplicateOnCollapses ==
    /\ \A name \in Names, l \in Callbacks :
          regs[name][l] > 0 <=> l \in Targets(handlers, name)
    /\ last.op = "on" => last.grew = (IF last.had THEN 0 ELSE 1)
    /\ last.op = "dispatch" => last.ran = last.size
    /\ (last.op = "off" /\ last.l \in Callbacks)
          => IF last.times >= 1 THEN last.err = "none" /\ last.gone
                                ELSE last.err = "KeyError"

C10_Witness ==
    /\ last.op = "off"
    /\ last.times = 2
    /\ last.err = "none"
    /\ last.gone

\* C11: emit(name, *args) on a client that reports connected never raises the
\* not-connected error, whether or not a session CONNECT packet has arrived; over
\* an open connection it writes exactly one frame, and the frame it writes decodes
\* as a MESSAGE whose payload decodes as the EVENT packet with data [name, *args].
C11_EmitWritesEventFrame ==
    (last.op = "emit" /\ last.connected)
        => /\ last.err # "NotConnected"
           /\ last.healthy => last.err = "none"
           /\ IF last.err = "none" THEN Len(last.wrote) = 1 ELSE last.wrote = <<>>
           /\ \A i \in 1..Len(last.wrote) :
                /\ EngineParse(last.wrote[i]).err = "none"
                /\ EngineParse(last.wrote[i]).type = "MESSAGE"
                /\ SocketParse(EngineParse(last.wrote[i]).data).err = "none"
                /\ SocketParse(EngineParse(last.wrote[i]).data).type = "EVENT"
                /\ SocketParse(EngineParse(last.wrote[i]).data).data
                      = [err |-> "none", k |-> "list", items |-> last.what]

C11_Witness ==
    /\ last.op = "emit"
    /\ last.connected
    /\ ~seenConnect
    /\ last.wrote = <<EventFrame("x", <<"1">>)>>

\* C12: with keep-alive enabled a PING is sent only when it is due (the loop's
\* `now` is past last_ping + ping_interval), and while the loop waits for a frame
\* a timeout is set that wakes it for the next PING, so that with no inbound
\* traffic no interval passes without one.
C12_OnePingPerWindow ==
    /\ pc = "ping" => (ping_interval > 0 /\ tnow > last_ping + ping_interval)
    /\ (pc = "recv" /\ ping_interval > 0)
          => (deadline # NoneNum /\ deadline >= last_ping + ping_interval)

\* C13 as stated: SocketIOPacket.parse applied to the string 42["foo",1,2] gives
\* type EVENT, data ["foo", 1, 2], namespace "/" and no id.
C13_DecodeExampleFrame ==
    (last.op = "decode" /\ last.input = ExampleFrame)
        => /\ last.out.err = "none"
           /\ last.out.type = "EVENT"
           /\ last.out.data = [err |-> "none", k |-> "list", items |-> <<"foo", "1", "2">>]
           /\ last.out.namespace = <<"/">>
           /\ last.out.id = NoneNum

\* C13 amended: SocketIOPacket.parse applied to the string 2["foo",1,2], the
\* payload of the MESSAGE frame 42["foo",1,2], gives type EVENT, data
\* ["foo", 1, 2], namespace "/" and no id.
C13_DecodeExamplePayload ==
    (last.op = "decode" /\ last.input = ExamplePayload)
        => /\ last.out.err = "none"
           /\ last.out.type = "EVENT"
           /\ last.out.data = [err |-> "none", k |-> "list", items |-> <<"foo", "1", "2">>]
           /\ last.out.namespace = <<"/">>
           /\ last.out.id = NoneNum

C13_Witness ==
    /\ last.op = "decode"
    /\ last.input = ExamplePayload
    /\ last.out.err = "none"

\* C14: for a packet of a non-binary type whose data is a non-empty list, parse
\* applied to what encode() returns gives a packet of the same type with the same
\* data.
C14_RoundTrip ==
    (/\ last.op = "decode"
     /\ last.from.op = "encode"
     /\ last.from.type \notin {"BINARY_EVENT", "BINARY_ACK"}
     /\ DataTruthy(last.from.data))
        => /\ last.out.err = "none"
           /\ last.out.type = last.from.type
           /\ last.out.data = last.from.data

C14_Witness ==
    /\ last.op = "decode"
    /\ last.from.op = "encode"
    /\ last.from.type = "ERROR"
    /\ last.from.data = [err |-> "none", k |-> "list", items |-> <<"2", "foo", "1">>]
    /\ last.out.err = "none"

\* C15: an inbound EVENT packet with no data or with the empty list as data does
\* not end the read task: after it the task is at the top of its loop again.
C15_EmptyEventKeepsReading ==
    (last.op = "recv" /\ last.t = "message" /\ last.s \in {"nodata", "emptydata"})
        => last.to = "top"

\* C16: an inbound text frame that fails transport decoding (the empty frame, a
\* first character that is no digit, a digit that is no packet type) is dropped:
\* after it the read task is at the top of its loop again.
C16_UndecodableFrameDropped ==
    (last.op = "recv" /\ last.t \in {"empty", "nondigit", "badtype"})
        => last.to = "top"

\* C17: a MESSAGE payload that fails session decoding (PACKET_RE does not match,
\* the type digit is no packet type, the data is not JSON) is dropped: the step
\* of the read task that receives it starts no dispatch, leaves the registry, the
\* once-closures and the futures as they were, and ends at the top of the loop.
C17_UndecodablePayloadDropped ==
    /\ [][(/\ pc = "recv"
           /\ last'.op = "recv"
           /\ last'.s \in {"nomatch", "badtype", "badjson"}
           /\ (last' # last \/ pc' # pc))
            => /\ pc' = "top"
               /\ stack' = <<>>
               /\ handlers' = handlers
               /\ wrappers' = wrappers
               /\ futures' = futures]_vars
    /\ []((last.op = "recv" /\ last.s \in {"nomatch", "badtype", "badjson"}) => last.to = "top")

C17_Witness ==
    /\ last.op = "recv"
    /\ last.s = "badjson"
    /\ last.to = "top"
    /\ pc \in Running
    /\ Targets(handlers, "x") # {}

\* C18: a dispatch calls exactly the listeners that were registered for the event
\* when it started, each once: none is skipped because it was removed during the
\* dispatch, by itself or by another listener, and none that was registered
\* during the dispatch is called in it.
C18_DispatchIteratesSnapshot ==
    last.op = "dispatch"
        => /\ last.ran = last.size
           /\ last.missed = 0
           /\ last.extra = 0

C18_Witness ==
    /\ last.op = "dispatch"
    /\ last.size >= 2
    /\ last.ran = last.size
    /\ last.removed
    /\ last.added
    /\ ~last.raised

\* C19: once the read task has ended, and as long as close() has not been called,
\* the client reports connected, the task stays ended, no dispatch starts and
\* nothing a received packet would set changes.
C19_HalfDeadAfterRunnerExit ==
    /\ []((pc = "done" /\ phase # "closed") => connected)
    /\ [][(pc = "done" /\ phase' # "closed")
            => /\ pc' = "done"
               /\ connected'
               /\ stack' = <<>>
               /\ UNCHANGED <<sid, ping_interval, ping_timeout, last_ping, seenConnect>>]_vars

C19_Witness ==
    /\ pc = "done"
    /\ phase = "open"
    /\ connected
    /\ last.op = "pong"
    /\ last.err = "ConnectionResetError"

\* C20: connect() on a client that reports connected changes nothing; a read
\* task is created only when none is live, and the client never holds more than
\* one open session.
C20_SingleConnection ==
    /\ [](openSessions <= 1)
    /\ [][(connected /\ last'.op = "connect" /\ last' # last)
            => (last'.noop /\ UNCHANGED <<engineVars, runVars, envVars>>)]_vars
    /\ [][(last'.op = "connect" /\ last' # last /\ ~last'.noop /\ last'.err = "none")
            => (pc \notin Running /\ pc' = "top" /\ openSessions = 0)]_vars

C20_Witness ==
    /\ last.op = "connect"
    /\ last.noop
    /\ pc \in Running
    /\ wsOpen
    /\ openSessions = 1

\* C21: the read task goes on to send a PONG exactly when the frame it has just
\* handled is a PING packet; from there its next step is that send, before any
\* other frame is received: over an open connection the PONG frame is written,
\* once, and the loop resumes, and otherwise the task ends.
C21_PongPerPing ==
    /\ [][(pc = "recv" /\ pc' \notin {"recv", "cancelled"})
            => (pc' = "pong" <=> (last'.op = "recv" /\ last'.type = "PING"))]_vars
    /\ [][pc = "pong"
            => /\ pc' \in {"pong", "top", "done", "cancelled"}
               /\ pc' = "top" => (wsOpen /\ wire' = EngineEncode("PONG", <<>>)
                                    /\ last' = [op |-> "pong", err |-> "none"])
               /\ pc' = "done" => (wire' = wire /\ last'.op = "pong" /\ last'.err # "none")]_vars
    /\ [][(pc # "pong" /\ last' # last) => last'.op # "pong"]_vars

C21_Witness ==
    /\ pc = "top"
    /\ last = [op |-> "pong", err |-> "none"]
    /\ wire = EngineEncode("PONG", <<>>)
    /\ wsOpen

\* C22: after a connect() call that raised, and until the next one, the client
\* reports not connected, send_packet and emit raise the not-connected error
\* and write nothing, and connect() is not a no-op.
C22_FailedConnectDisconnects ==
    /\ phase = "failed" => (~connected /\ session = "None" /\ pc \notin Running)
    /\ (last.op \in {"send", "emit"} /\ last.phase = "failed")
          => (last.err = "NotConnected" /\ last.wrote = <<>>)
    /\ (last.op = "connect" /\ phase = "failed") => ~last.noop

\* C23: the callback of a once-listener is called at most once, also when a
\* listener dispatches the same event again while a dispatch of it is running.
C23_OnceFiresOnceReentrant ==
    \A i \in 1..Len(wrappers) :
        wrappers[i].seen >= 1 => wrappers[i].fired <= 1

\* C24: with keep-alive enabled and the interval unchanged, each PING the read
\* task writes comes more than ping_interval after the one it wrote before; a
\* PING is written only by the step that follows the loop finding it due, never
\* by the step that handles a received frame.
C24_PingSpacing ==
    /\ [][(pinged' # pinged /\ pinged # NoneNum /\ ping_interval' = ping_interval)
            => pinged' > pinged + ping_interval]_vars
    /\ [][pinged' # pinged
            => (pc = "ping" /\ pinged' = now /\ wire' = EngineEncode("PING", <<>>))]_vars
    /\ [][pc = "recv" => pc' # "ping"]_vars

C24_Witness ==
    /\ ping_interval = 1
    /\ pc = "recv"
    /\ last = [op |-> "ping", err |-> "none", at |-> 4, prev |-> 2]
    /\ pinged = 4
    /\ wire = EngineEncode("PING", <<>>)

\* C25: no future of next_event is set more than once, and when a dispatch of
\* an event returns, every caller that was waiting in next_event for that event
\* when the dispatch began has its future resolved, by one set_result, with the
\* arguments of that dispatch in order, and its once-listener is out of the
\* registry.
C25_BothWaitersResolved ==
    /\ [](\A i \in 1..Len(futures) : futures[i].sets <= 1)
    /\ [][(stack # <<>> /\ stack' = <<>>)
            => \A l \in stack[1].snap :
                 (l.k = "once" /\ wrappers[l.n].inner.k = "fut")
                    => /\ futures'[wrappers[l.n].inner.n].done
                       /\ futures'[wrappers[l.n].inner.n].sets = 1
                       /\ futures'[wrappers[l.n].inner.n].result = stack[1].args
                       /\ l \notin Targets(handlers', stack[1].name)]_vars

C25_Witness ==
    /\ stack = <<>>
    /\ last.op = "dispatch"
    /\ last.size = 2
    /\ last.ran = 2
    /\ Len(futures) = 2
    /\ futures[1].name = futures[2].name
    /\ \A i \in 1..2 : /\ futures[i].done
                        /\ futures[i].sets = 1
                        /\ futures[i].result = <<"1", "2", "3">>
    /\ Targets(handlers, futures[1].name) = {}

====
